---- MODULE Spec2Model ----
(***************************************************************************)
(* Model of Gossip (src/src/gossip_median_with_round/gossip.rs): the       *)
(* per-node rumor store of a push/pull gossip protocol.  One action per    *)
(* public method; the fields of the struct are the variables.              *)
(***************************************************************************)
EXTENDS Integers, Sequences, FiniteSets, TLC

(* ------------------------------ bounds --------------------------------- *)
\* counts passed to receive are 0..MaxCount, plus the u8 extreme 255
MaxCount == 1
\* total number of recorded hits (over all digests) between two rounds
MaxHits == 1
\* number of add_peer calls explored on the fresh store
MaxAddPeer == 2

\* the distinct payloads the environment passes to inform / receive
Payloads == {1, 2}
Counts == (0..MaxCount) \cup {255}

(* --------------------------- u8 arithmetic ----------------------------- *)
\* u8 `+` and `*` as a release build computes them (wrapping at 2^8)
U8Add(a, b) == (a + b) % 256
U8Mul(a, b) == (a * b) % 256
Max(a, b) == IF a >= b THEN a ELSE b

(* ------------------------------ digests -------------------------------- *)
\* sha3_256: an injective map from payloads to digests whose order differs
\* from the payloads' order (the BTreeMap iterates in digest order).
sha3_256(msg) == (msg * 7) % 11

\* keys of a BTreeMap in iteration (ascending) order
RECURSIVE SortedKeys(_)
SortedKeys(S) ==
    IF S = {} THEN <<>>
    ELSE LET m == CHOOSE x \in S : \A y \in S : x <= y
         IN  <<m>> \o SortedKeys(S \ {m})

(* --------------------- f64 logarithms and `as u8` ---------------------- *)
\* least n with ln(n) >= k, for k = 1..10: ceil(e^k)
ExpCeil == <<3, 8, 21, 55, 149, 404, 1097, 2981, 8104, 22027>>

\* `f.ln() as u8` for f = n >= 1: truncation of ln(n) (exact for n < e^11)
LnAsU8(n) == Cardinality({k \in 1..Len(ExpCeil) : n >= ExpCeil[k]})

\* mutant: the cast of ln(ln(1)) = -inf does not saturate at 0
LnLnAsU8_Unsaturated(n) ==
    IF n = 1 THEN 255
    ELSE IF n < 16 THEN 0
    ELSE IF n < 1619 THEN 1
    ELSE 2

\* `f.ln().ln() as u8` for f = n >= 1.  ln(ln(1)) = -inf and ln(ln(2)) < 0:
\* the float-to-u8 cast saturates at 0; for 3 <= n it truncates:
\* ln(ln(n)) >= 1 iff n >= e^e = 15.15.., >= 2 iff n >= e^(e^2) = 1618.17..
LnLnAsU8(n) ==
    IF n < 16 THEN 0
    ELSE IF n < 1619 THEN 1
    ELSE 2

\* mutant: terminate_rounds taken from ln(n) alone, without max(cold_rounds, _)
Thresholds_NoMax(n) ==
    LET hot  == Max(1, LnLnAsU8(n))
        cold == Max(2, U8Mul(2, hot))
    IN  [hot_rounds |-> hot, cold_rounds |-> cold, terminate_rounds |-> LnAsU8(n)]

\* the three thresholds add_peer computes for peer count n
Thresholds(n) ==
    LET hot  == Max(1, LnLnAsU8(n))
        cold == Max(2, U8Mul(2, hot))
        term == Max(cold, LnAsU8(n))
    IN  [hot_rounds |-> hot, cold_rounds |-> cold, terminate_rounds |-> term]

(* ------------------------------- state --------------------------------- *)
VARIABLES
    messages,          \* BTreeMap digest -> [push_counter, age_counter, msg]
    total_peers,       \* u64
    hot_rounds,        \* u8
    cold_rounds,       \* u8
    terminate_rounds,  \* u8
    hits,              \* BTreeMap digest -> Vec<u8>
    call,              \* the last call made: its name, arguments and return value
    maxRecv,           \* history: greatest count passed to receive, per payload
    origin             \* history: how each payload was first learned (see below)

vars == <<messages, total_peers, hot_rounds, cold_rounds, terminate_rounds,
          hits, call, maxRecv, origin>>

EmptyMap == <<>>
Call(op, count, msg, ret) == [op |-> op, count |-> count, msg |-> msg, ret |-> ret]

\* History of a payload p, kept while the thresholds stay as they were when
\* p was first learned: origin[p] = <<first, rounds>>, where first is
\*   -2        none of the cases below, or a threshold has changed since p
\*             was learned;
\*   -1        p was created by inform and never passed to receive;
\*   c >= 0    p was created by receive(c, p) with c > hot_rounds;
\* and rounds is the number of get_push_list calls since a p made by inform was
\* created, counted up to terminate_rounds + 2.
NotTracked == <<-2, 0>>
ByInform(rounds) == <<-1, rounds>>
ByReceive(count) == <<count, 0>>

\* BTreeMap::entry(k).or_insert(v): the map, with k bound to v if k was absent
OrInsert(map, k, v) ==
    IF k \in DOMAIN map THEN map
    ELSE [x \in DOMAIN map \cup {k} |-> IF x = k THEN v ELSE map[x]]

\* number of hits below the counter, and of the others (lines 113-119)
CountLess(hitSeq, counter) ==
    Cardinality({i \in 1..Len(hitSeq) : hitSeq[i] < counter})
CountGreaterOrEqual(hitSeq, counter) ==
    Cardinality({i \in 1..Len(hitSeq) : ~ (hitSeq[i] < counter)})

RECURSIVE SumLen(_, _)
SumLen(map, keys) ==
    IF keys = {} THEN 0
    ELSE LET k == CHOOSE x \in keys : TRUE
         IN  Len(map[k]) + SumLen(map, keys \ {k})

\* hits recorded since the last round, over all digests
TotalHits == SumLen(hits, DOMAIN hits)

\* the first peer counts at which terminate_rounds (21 = ceil(e^3)) and
\* hot_rounds and cold_rounds (1619 = ceil(e^(e^2))) change
PeerJumps == {21, 1619}

\* peer counts from which add_peer calls are explored: the fresh store, and
\* the count just below each jump
PeerStarts == {0} \cup {j - 1 : j \in PeerJumps}

\* peer counts add_peer may reach: MaxAddPeer calls on the fresh store, and
\* the call that crosses each jump
PeerRange == (1..MaxAddPeer) \cup PeerJumps

(* ------------------------- Gossip::new (44-53) ------------------------- *)
Init ==
    /\ messages = EmptyMap
    /\ total_peers = 0
    /\ hot_rounds = 0
    /\ cold_rounds = 0
    /\ terminate_rounds = 0
    /\ hits = EmptyMap
    /\ call = Call("new", 0, 0, <<>>)
    /\ maxRecv = [p \in Payloads |-> -1]
    /\ origin = [p \in Payloads |-> NotTracked]

(* ----------------------- Gossip::add_peer (55-61) ---------------------- *)
add_peer ==
    /\ total_peers + 1 \in PeerRange
    /\ total_peers' = total_peers + 1
    /\ LET t == Thresholds(total_peers + 1)
       IN  /\ hot_rounds' = t.hot_rounds
           /\ cold_rounds' = t.cold_rounds
           /\ terminate_rounds' = t.terminate_rounds
    /\ call' = Call("add_peer", 0, 0, <<>>)
    /\ origin' = IF Thresholds(total_peers + 1) =
                      [hot_rounds |-> hot_rounds, cold_rounds |-> cold_rounds,
                       terminate_rounds |-> terminate_rounds]
                 THEN origin
                 ELSE [p \in Payloads |-> NotTracked]
    /\ UNCHANGED <<messages, hits, maxRecv>>

(* ----------------------- Gossip::messages (63-65) ---------------------- *)
\* the payloads of all entries, in digest order
MessagesList(ms) ==
    LET keys == SortedKeys(DOMAIN ms)
    IN  [i \in 1..Len(keys) |-> ms[keys[i]].msg]

messages_fn ==
    /\ call' = Call("messages", 0, 0, MessagesList(messages))
    /\ UNCHANGED <<messages, total_peers, hot_rounds, cold_rounds,
                   terminate_rounds, hits, maxRecv, origin>>

(* ------------------------ Gossip::inform (67-70) ----------------------- *)
\* mutant: BTreeMap::insert instead of entry().or_insert()
InformEntry_Insert(ms, msg) ==
    [x \in DOMAIN ms \cup {sha3_256(msg)} |->
        IF x = sha3_256(msg)
        THEN [push_counter |-> 0, age_counter |-> 0, msg |-> msg]
        ELSE ms[x]]

InformEntry(ms, msg) ==
    OrInsert(ms, sha3_256(msg),
             [push_counter |-> 0, age_counter |-> 0, msg |-> msg])

inform(msg) ==
    /\ messages' = InformEntry(messages, msg)
    /\ call' = Call("inform", 0, msg, <<>>)
    /\ origin' = IF sha3_256(msg) \in DOMAIN messages THEN origin
                 ELSE [origin EXCEPT ![msg] = ByInform(0)]
    /\ UNCHANGED <<total_peers, hot_rounds, cold_rounds, terminate_rounds,
                   hits, maxRecv>>

(* ----------------------- Gossip::receive (72-83) ----------------------- *)
\* mutant: a new entry starts at (count, 0), like one made by inform
ReceiveEntry_AgeZero(ms, count, msg) ==
    LET h == sha3_256(msg)
        inserted == OrInsert(ms, h, [push_counter |-> count,
                                     age_counter |-> 0, msg |-> msg])
    IN  IF inserted[h].push_counter < count
        THEN [inserted EXCEPT ![h].push_counter = count]
        ELSE inserted

\* mutant: the incoming counter always replaces the local one
ReceiveEntry_Overwrite(ms, count, msg) ==
    LET h == sha3_256(msg)
        inserted == OrInsert(ms, h, [push_counter |-> count,
                                     age_counter |-> count, msg |-> msg])
    IN  [inserted EXCEPT ![h].push_counter = count]

\* mutant: a stored push_counter is never raised to the count received
ReceiveEntry_NoRaise(ms, count, msg) ==
    OrInsert(ms, sha3_256(msg), [push_counter |-> count,
                                 age_counter |-> count, msg |-> msg])

ReceiveEntry(ms, count, msg) ==
    LET h == sha3_256(msg)
        inserted == OrInsert(ms, h, [push_counter |-> count,
                                     age_counter |-> count, msg |-> msg])
    IN  IF inserted[h].push_counter < count
        THEN [inserted EXCEPT ![h].push_counter = count]
        ELSE inserted

ReceiveHit(hs, count, msg) ==
    LET h == sha3_256(msg)
        withEntry == OrInsert(hs, h, <<>>)
    IN  [withEntry EXCEPT ![h] = Append(@, count)]

\* receive, explored while fewer than budget hits are recorded for the round
receive_within(budget, count, msg) ==
    /\ TotalHits < budget
    /\ messages' = ReceiveEntry(messages, count, msg)
    /\ hits' = ReceiveHit(hits, count, msg)
    /\ call' = Call("receive", count, msg, <<>>)
    /\ maxRecv' = [maxRecv EXCEPT ![msg] = Max(@, count)]
    /\ origin' = [origin EXCEPT ![msg] =
                    IF sha3_256(msg) \notin DOMAIN messages
                    THEN IF count > hot_rounds THEN ByReceive(count)
                         ELSE NotTracked
                    ELSE IF @[1] = -1 THEN NotTracked
                    ELSE @]
    /\ UNCHANGED <<total_peers, hot_rounds, cold_rounds, terminate_rounds>>

receive(count, msg) == receive_within(MaxHits, count, msg)

(* -------------------- Gossip::get_push_list (85-127) ------------------- *)
\* filter_map over the entries in digest order, keeping (push_counter, msg)
\* of those with push_counter <= pushMax and age_counter <= ageMax
FilterMap(ms, pushMax, ageMax) ==
    LET keys == SortedKeys({d \in DOMAIN ms :
                   /\ ms[d].push_counter <= pushMax
                   /\ ms[d].age_counter <= ageMax})
    IN  [i \in 1..Len(keys) |-> <<ms[keys[i]].push_counter, ms[keys[i]].msg>>]

\* mutant: the age test is missing from the push filter
PushList_NoAge(ms, hot, term) == FilterMap(ms, hot, 255)

\* mutant: the push filter uses cold_rounds, as the pull filter does
PushList_Cold(ms, hot, term) == FilterMap(ms, cold_rounds, term)

PushList(ms, hot, term) == FilterMap(ms, hot, term)

\* mutant: the round advance never ages an entry
RoundAdvance_NoAge(v, hot, cold, term) ==
    IF v.push_counter > hot /\ v.push_counter <= cold
    THEN [v EXCEPT !.push_counter = U8Add(v.push_counter, 1)]
    ELSE v

\* mutant: every entry ages at every round, terminated or not
RoundAdvance_AlwaysAges(v, hot, cold, term) ==
    LET push == IF v.push_counter > hot /\ v.push_counter <= cold
                THEN U8Add(v.push_counter, 1) ELSE v.push_counter
    IN  [v EXCEPT !.push_counter = push,
                  !.age_counter = U8Add(v.age_counter, 1)]

\* mutant: an entry ages only while age_counter < terminate_rounds
RoundAdvance_AgeStrict(v, hot, cold, term) ==
    LET push == IF v.push_counter > hot /\ v.push_counter <= cold
                THEN U8Add(v.push_counter, 1) ELSE v.push_counter
        age  == IF v.age_counter < term
                THEN U8Add(v.age_counter, 1) ELSE v.age_counter
    IN  [v EXCEPT !.push_counter = push, !.age_counter = age]

\* mutant: the round advance also steps the entries still in the hot phase
RoundAdvance_HotToo(v, hot, cold, term) ==
    LET push == IF v.push_counter <= cold
                THEN U8Add(v.push_counter, 1) ELSE v.push_counter
        age  == IF v.age_counter <= term
                THEN U8Add(v.age_counter, 1) ELSE v.age_counter
    IN  [v EXCEPT !.push_counter = push, !.age_counter = age]

\* lines 96-103: the round advance of one entry
RoundAdvance(v, hot, cold, term) ==
    LET push == IF v.push_counter > hot /\ v.push_counter <= cold
                THEN U8Add(v.push_counter, 1) ELSE v.push_counter
        age  == IF v.age_counter <= term
                THEN U8Add(v.age_counter, 1) ELSE v.age_counter
    IN  [v EXCEPT !.push_counter = push, !.age_counter = age]

\* mutant: an even split of the hits advances the entry too
Reconcile_TieAdvances(v, hitSeq, hot) ==
    LET less == CountLess(hitSeq, v.push_counter)
        greater_or_equal == CountGreaterOrEqual(hitSeq, v.push_counter)
    IN  IF greater_or_equal >= less /\ v.push_counter <= hot
        THEN [v EXCEPT !.push_counter = U8Add(v.push_counter, 1)]
        ELSE v

\* lines 110-123: the reconciliation of one entry with its recorded hits
Reconcile(v, hitSeq, hot) ==
    LET less == CountLess(hitSeq, v.push_counter)
        greater_or_equal == CountGreaterOrEqual(hitSeq, v.push_counter)
    IN  IF greater_or_equal > less /\ v.push_counter <= hot
        THEN [v EXCEPT !.push_counter = U8Add(v.push_counter, 1)]
        ELSE v

\* origin after one more get_push_list call
RoundsCounted ==
    [p \in Payloads |->
        IF origin[p][1] = -1 /\ origin[p][2] < terminate_rounds + 2
        THEN ByInform(origin[p][2] + 1)
        ELSE origin[p]]

\* mutant: the round drops the entries that no query returns any more
AdvanceAll_Evict(ms, hs, hot, cold, term) ==
    [d \in {x \in DOMAIN ms :
                ms[x].push_counter <= cold \/ ms[x].age_counter <= term} |->
        LET v == RoundAdvance(ms[d], hot, cold, term)
        IN  IF d \in DOMAIN hs THEN Reconcile(v, hs[d], hot) ELSE v]

\* lines 96-124: every entry after the round advance and the reconciliation
\* mutant: the hits are reconciled before the round advance, not after it
AdvanceAll_ReconcileFirst(ms, hs, hot, cold, term) ==
    [d \in DOMAIN ms |->
        LET v == IF d \in DOMAIN hs THEN Reconcile(ms[d], hs[d], hot)
                 ELSE ms[d]
        IN  RoundAdvance(v, hot, cold, term)]

AdvanceAll(ms, hs, hot, cold, term) ==
    [d \in DOMAIN ms |->
        LET v == RoundAdvance(ms[d], hot, cold, term)
        IN  IF d \in DOMAIN hs THEN Reconcile(v, hs[d], hot) ELSE v]

\* mutant: the push list is collected after the counters have advanced
get_push_list_PostSnapshot ==
    /\ messages' = AdvanceAll(messages, hits, hot_rounds, cold_rounds,
                              terminate_rounds)
    /\ call' = Call("get_push_list", 0, 0,
                    PushList(messages', hot_rounds, terminate_rounds))
    /\ hits' = EmptyMap
    /\ origin' = RoundsCounted
    /\ UNCHANGED <<total_peers, hot_rounds, cold_rounds, terminate_rounds,
                   maxRecv>>

\* mutant: the hit tally is left in place for the next round
get_push_list_KeepsHits ==
    /\ call' = Call("get_push_list", 0, 0,
                    PushList(messages, hot_rounds, terminate_rounds))
    /\ messages' = AdvanceAll(messages, hits, hot_rounds, cold_rounds,
                              terminate_rounds)
    /\ origin' = RoundsCounted
    /\ UNCHANGED <<total_peers, hot_rounds, cold_rounds, terminate_rounds,
                   hits, maxRecv>>

get_push_list ==
    /\ call' = Call("get_push_list", 0, 0,
                    PushList(messages, hot_rounds, terminate_rounds))
    /\ messages' = AdvanceAll(messages, hits, hot_rounds, cold_rounds,
                              terminate_rounds)
    /\ hits' = EmptyMap
    /\ origin' = RoundsCounted
    /\ UNCHANGED <<total_peers, hot_rounds, cold_rounds, terminate_rounds,
                   maxRecv>>

(* --------------------- Gossip::handle_pull (129-140) ------------------- *)
\* mutant: the pull filter uses hot_rounds, as the push filter does
PullList_Hot(ms, cold, term) == FilterMap(ms, hot_rounds, term)

PullList(ms, cold, term) == FilterMap(ms, cold, term)

\* mutant: handle_pull takes the hit tally, as get_push_list does
handle_pull_TakesHits ==
    /\ call' = Call("handle_pull", 0, 0,
                    FilterMap(messages, cold_rounds, terminate_rounds))
    /\ hits' = EmptyMap
    /\ UNCHANGED <<messages, total_peers, hot_rounds, cold_rounds,
                   terminate_rounds, maxRecv, origin>>

handle_pull ==
    /\ call' = Call("handle_pull", 0, 0,
                    PullList(messages, cold_rounds, terminate_rounds))
    /\ UNCHANGED <<messages, total_peers, hot_rounds, cold_rounds,
                   terminate_rounds, hits, maxRecv, origin>>

(* --------------------------- specifications ---------------------------- *)
Next ==
    \/ add_peer
    \/ messages_fn
    \/ \E msg \in Payloads : inform(msg)
    \/ \E count \in Counts, msg \in Payloads : receive(count, msg)
    \/ get_push_list
    \/ handle_pull

Spec == Init /\ [][Next]_vars

\* the round-scheduling loop keeps calling get_push_list (one call per round)
FairSpec == Spec /\ WF_vars(get_push_list)

\* The store after s add_peer calls on a fresh store and nothing else, for
\* s in PeerStarts: add_peer makes the thresholds a function of total_peers.
InitPeers ==
    /\ messages = EmptyMap
    /\ total_peers \in PeerStarts
    /\ LET t == IF total_peers = 0
                THEN [hot_rounds |-> 0, cold_rounds |-> 0, terminate_rounds |-> 0]
                ELSE Thresholds(total_peers)
       IN  /\ hot_rounds = t.hot_rounds
           /\ cold_rounds = t.cold_rounds
           /\ terminate_rounds = t.terminate_rounds
    /\ hits = EmptyMap
    /\ call = Call("new", 0, 0, <<>>)
    /\ maxRecv = [p \in Payloads |-> -1]
    /\ origin = [p \in Payloads |-> NotTracked]

SpecPeers == InitPeers /\ [][Next]_vars

\* The same operations on the fresh store, with one more hit per round, so
\* that a round's tally can hold as many hits below the counter as at it.
NextTally ==
    \/ add_peer
    \/ messages_fn
    \/ \E msg \in Payloads : inform(msg)
    \/ \E count \in Counts, msg \in Payloads :
          receive_within(MaxHits + 1, count, msg)
    \/ get_push_list
    \/ handle_pull

SpecTally == Init /\ [][NextTally]_vars

\* The same operations on the fresh store, with one more count for receive,
\* so that a count can lie above hot_rounds without lying above
\* terminate_rounds.
NextCounts ==
    \/ add_peer
    \/ messages_fn
    \/ \E msg \in Payloads : inform(msg)
    \/ \E count \in Counts \cup {MaxCount + 1}, msg \in Payloads :
          receive(count, msg)
    \/ get_push_list
    \/ handle_pull

SpecCounts == Init /\ [][NextCounts]_vars

(* ============================== properties ============================= *)
Stored(p) == sha3_256(p) \in DOMAIN messages
Entry(p) == messages[sha3_256(p)]
Terminated(p) == Stored(p) /\ Entry(p).age_counter > terminate_rounds
RetSet(ret) == {ret[i] : i \in DOMAIN ret}
RetPayloads(ret) == {ret[i][2] : i \in DOMAIN ret}
IsQuery(c) == c.op \in {"get_push_list", "handle_pull"}

\* p would be returned by a get_push_list or a handle_pull call made now
Offered(p) ==
    \/ p \in RetPayloads(PushList(messages, hot_rounds, terminate_rounds))
    \/ p \in RetPayloads(PullList(messages, cold_rounds, terminate_rounds))

\* C1 (as stated): once a rumor's age_counter exceeds terminate_rounds, no
\* later get_push_list or handle_pull call returns it: after any step from a
\* state where it is terminated, a call made next would still not return it.
C1_TerminationPermanent ==
    [][\A p \in Payloads : Terminated(p) => ~ Offered(p)']_vars

\* C1 (amended): a terminated rumor is absent from the result of the call
\* being made, and stays terminated, with its age_counter frozen, across
\* every operation except add_peer, even while push_counter <= hot_rounds.
C1_TerminationUntilAddPeer ==
    [][\A p \in Payloads : Terminated(p) =>
          /\ IsQuery(call') => p \notin RetPayloads(call'.ret)
          /\ call'.op # "add_peer" =>
                /\ Terminated(p)'
                /\ Entry(p)'.age_counter = Entry(p).age_counter
                /\ ~ Offered(p)']_vars

\* a get_push_list call has left out a terminated rumor still in the hot range
C1_Witness ==
    \E p \in Payloads :
        /\ Terminated(p)
        /\ Entry(p).push_counter <= hot_rounds
        /\ total_peers > 0
        /\ call.op = "get_push_list"
        /\ p \notin RetPayloads(call.ret)

\* C2: under weak fairness of get_push_list (add_peer is called finitely
\* often), eventually no rumor is returned by get_push_list or handle_pull
\* any more, whatever receive calls are interleaved.
C2_CirculationBounded ==
    <>[](\A p \in Payloads : Stored(p) => Terminated(p) /\ ~ Offered(p))

\* a rumor that peers reported (receive) is terminated while still hot
C2_Witness ==
    \E p \in Payloads :
        /\ maxRecv[p] >= 0
        /\ Terminated(p)
        /\ Entry(p).push_counter <= hot_rounds
        /\ total_peers > 0
        /\ call.op = "handle_pull"
        /\ p \notin RetPayloads(call.ret)

\* the (push_counter, payload) pairs of the stored rumors with
\* push_counter <= pushMax and age_counter <= terminate_rounds, now
Eligible(pushMax) ==
    {<<Entry(p).push_counter, p>> : p \in {q \in Payloads :
        /\ Stored(q)
        /\ Entry(q).push_counter <= pushMax
        /\ Entry(q).age_counter <= terminate_rounds}}

\* C3: the result of get_push_list holds exactly the rumors whose pre-call
\* push_counter <= hot_rounds and pre-call age_counter <= terminate_rounds,
\* each once and paired with its pre-call push_counter.
C3_PushListFromPreState ==
    [][call'.op = "get_push_list" =>
          /\ RetSet(call'.ret) = Eligible(hot_rounds)
          /\ Len(call'.ret) = Cardinality(Eligible(hot_rounds))]_vars

\* a returned rumor whose stored push_counter is already past the returned one
C3_Witness ==
    /\ call.op = "get_push_list"
    /\ \E i \in DOMAIN call.ret :
          Entry(call.ret[i][2]).push_counter > call.ret[i][1]

\* C4: handle_pull changes no field of the store, and a handle_pull call
\* following a handle_pull call returns the same result.
C4_PullPure ==
    [][call'.op = "handle_pull" =>
          /\ UNCHANGED <<messages, hits, total_peers, hot_rounds, cold_rounds,
                         terminate_rounds>>
          /\ call.op = "handle_pull" => call'.ret = call.ret]_vars

\* handle_pull has returned a rumor while hits were recorded for the round
C4_Witness ==
    /\ call.op = "handle_pull"
    /\ call.ret # <<>>
    /\ hits # EmptyMap

\* C5: handle_pull returns exactly the rumors with push_counter <=
\* cold_rounds and age_counter <= terminate_rounds; whatever get_push_list
\* returns is among them; a rumor in the cold range that has not terminated
\* is returned by handle_pull and not by get_push_list.
C5_PullCoversPush ==
    [][/\ call'.op = "handle_pull" =>
             /\ RetSet(call'.ret) = Eligible(cold_rounds)
             /\ Len(call'.ret) = Cardinality(Eligible(cold_rounds))
       /\ call'.op = "get_push_list" =>
             RetSet(call'.ret) \subseteq Eligible(cold_rounds)
       /\ \A p \in Payloads :
             (/\ Stored(p)
              /\ hot_rounds < Entry(p).push_counter
              /\ Entry(p).push_counter <= cold_rounds
              /\ Entry(p).age_counter <= terminate_rounds)
             => /\ call'.op = "handle_pull" => p \in RetPayloads(call'.ret)
                /\ call'.op = "get_push_list" => p \notin RetPayloads(call'.ret)
      ]_vars

\* handle_pull has returned a rumor that is in the cold range
C5_Witness ==
    /\ call.op = "handle_pull"
    /\ \E i \in DOMAIN call.ret :
          /\ hot_rounds < call.ret[i][1]
          /\ call.ret[i][1] <= cold_rounds
          /\ call.ret[i][2] \notin
                RetPayloads(PushList(messages, hot_rounds, terminate_rounds))

\* C6: inform(p) on a store that holds p changes no field of the store, and
\* messages() lists p exactly once afterwards.
C6_InformIdempotent ==
    [][(call'.op = "inform" /\ Stored(call'.msg)) =>
          /\ UNCHANGED <<messages, hits, total_peers, hot_rounds, cold_rounds,
                         terminate_rounds>>
          /\ Cardinality({i \in DOMAIN MessagesList(messages') :
                             MessagesList(messages')[i] = call'.msg}) = 1]_vars

\* inform was called for a rumor that arrived by receive and has aged since
C6_Witness ==
    /\ call.op = "inform"
    /\ maxRecv[call.msg] >= 0
    /\ Entry(call.msg).age_counter > maxRecv[call.msg]
    /\ Entry(call.msg).push_counter > 0

\* C7: receive(c, p) creates the entry (c, c) for a p that is not stored, and
\* sets push_counter to max(push_counter, c), leaving age_counter, for a p
\* that is stored.
C7_ReceiveEntry ==
    [][\A c \in Counts, p \in Payloads :
          (call'.op = "receive" /\ call'.count = c /\ call'.msg = p) =>
              /\ Stored(p)'
              /\ Entry(p)'.msg = p
              /\ IF Stored(p)
                 THEN /\ Entry(p)'.push_counter = Max(Entry(p).push_counter, c)
                      /\ Entry(p)'.age_counter = Entry(p).age_counter
                 ELSE /\ Entry(p)'.push_counter = c
                      /\ Entry(p)'.age_counter = c]_vars

\* one rumor was created by receive(255, _); receive has just raised the
\* push_counter of another, stored one
C7_Witness ==
    /\ call.op = "receive"
    /\ Entry(call.msg).push_counter = call.count
    /\ Entry(call.msg).age_counter < call.count
    /\ \E q \in Payloads :
          /\ Stored(q)
          /\ Entry(q).push_counter = 255
          /\ Entry(q).age_counter = 255

\* C8: the stored push_counter of p is at least every count passed to
\* receive for p.
C8_MonotonicCatchUp ==
    \A p \in Payloads :
        maxRecv[p] >= 0 => Stored(p) /\ Entry(p).push_counter >= maxRecv[p]

\* receive was called with a count below an earlier one for the same rumor
C8_Witness ==
    /\ call.op = "receive"
    /\ call.count < maxRecv[call.msg]
    /\ Entry(call.msg).push_counter > call.count

\* C9: terminate_rounds >= cold_rounds >= hot_rounds in every state.
C9_ThresholdOrder ==
    /\ terminate_rounds >= cold_rounds
    /\ cold_rounds >= hot_rounds

\* add_peer has computed three different thresholds
C9_Witness ==
    /\ call.op = "add_peer"
    /\ terminate_rounds > cold_rounds
    /\ cold_rounds > hot_rounds

\* C10: add_peer adds one to the peer count and lowers no threshold; no other
\* operation changes a threshold or the peer count.
C10_ThresholdsMonotonic ==
    [][IF call'.op = "add_peer"
       THEN /\ total_peers' = total_peers + 1
            /\ hot_rounds' >= hot_rounds
            /\ cold_rounds' >= cold_rounds
            /\ terminate_rounds' >= terminate_rounds
       ELSE UNCHANGED <<total_peers, hot_rounds, cold_rounds,
                        terminate_rounds>>]_vars

\* add_peer has raised hot_rounds above 1
C10_Witness ==
    /\ call.op = "add_peer"
    /\ hot_rounds > 1
    /\ messages # EmptyMap

Min(a, b) == IF a <= b THEN a ELSE b

\* C11: for a rumor made by inform and never passed to receive, with the
\* thresholds unchanged since, after r get_push_list calls: push_counter is
\* 0, age_counter is r up to terminate_rounds + 1, each of the first
\* terminate_rounds + 1 calls returned it, and after that many calls neither
\* get_push_list nor handle_pull returns it.
C11_InformedRumorRounds ==
    \A p \in Payloads :
        origin[p][1] = -1 =>
            LET r == origin[p][2]
            IN  /\ Stored(p)
                /\ Entry(p).push_counter = 0
                /\ Entry(p).age_counter = Min(r, terminate_rounds + 1)
                /\ (call.op = "get_push_list" /\ 1 <= r
                      /\ r <= terminate_rounds + 1)
                       => <<0, p>> \in RetSet(call.ret)
                /\ (call.op = "get_push_list" /\ r > terminate_rounds + 1)
                       => p \notin RetPayloads(call.ret)
                /\ r >= terminate_rounds + 1
                       => /\ ~ Offered(p)
                          /\ call.op = "handle_pull"
                                => p \notin RetPayloads(call.ret)

\* the call after the (terminate_rounds + 1)-th has left the rumor out
C11_Witness ==
    \E p \in Payloads :
        /\ origin[p] = ByInform(terminate_rounds + 2)
        /\ total_peers > 0
        /\ call.op = "get_push_list"
        /\ p \notin RetPayloads(call.ret)

\* number of times payload p occurs in a list of payloads
Occurrences(list, p) == Cardinality({i \in DOMAIN list : list[i] = p})

\* C12: a payload passed to inform or receive is stored after the call; a
\* stored payload stays stored across every operation; messages() returns
\* each stored payload exactly once and nothing else, whatever its counters.
C12_NeverRemovedNorDuplicated ==
    [][\A p \in Payloads :
          /\ Stored(p) => Stored(p)'
          /\ (call'.op \in {"inform", "receive"} /\ call'.msg = p) => Stored(p)'
          /\ Occurrences(MessagesList(messages'), p)
                = IF Stored(p)' THEN 1 ELSE 0
          /\ call'.op = "messages" =>
                Occurrences(call'.ret, p) = IF Stored(p) THEN 1 ELSE 0]_vars

\* messages() has returned two rumors, one of them past every threshold
C12_Witness ==
    /\ call.op = "messages"
    /\ Len(call.ret) = 2
    /\ total_peers > 0
    /\ \E p \in Payloads :
          /\ Stored(p)
          /\ Entry(p).push_counter > cold_rounds
          /\ Entry(p).age_counter > terminate_rounds
          /\ ~ Offered(p)
          /\ Occurrences(call.ret, p) = 1

HasHits(p) == sha3_256(p) \in DOMAIN hits

\* C13: get_push_list changes an entry with no recorded hits to
\* push_counter + 1 if hot_rounds < push_counter <= cold_rounds, else keeps
\* push_counter; and to age_counter + 1 if age_counter <= terminate_rounds,
\* else keeps age_counter.
C13_RoundAdvanceNoHits ==
    [][call'.op = "get_push_list" =>
          \A p \in Payloads :
              (Stored(p) /\ ~ HasHits(p)) =>
                  /\ Entry(p)'.push_counter =
                        IF /\ hot_rounds < Entry(p).push_counter
                           /\ Entry(p).push_counter <= cold_rounds
                        THEN Entry(p).push_counter + 1
                        ELSE Entry(p).push_counter
                  /\ Entry(p)'.age_counter =
                        IF Entry(p).age_counter <= terminate_rounds
                        THEN Entry(p).age_counter + 1
                        ELSE Entry(p).age_counter]_vars

\* after a round one rumor has left the cold tail and an informed hot one,
\* never passed to receive, has aged with its push_counter kept
C13_Witness ==
    /\ call.op = "get_push_list"
    /\ total_peers > 0
    /\ \E p, q \in Payloads :
          /\ Stored(p)
          /\ Entry(p).push_counter = cold_rounds + 1
          /\ Entry(p).age_counter <= terminate_rounds
          /\ origin[q][1] = -1
          /\ origin[q][2] > 0
          /\ Entry(q).push_counter = 0

HitsOf(p) == hits[sha3_256(p)]

\* push_counter of a stored p after the round-advance step of a call made now
AdvancedPush(p) ==
    IF hot_rounds < Entry(p).push_counter /\ Entry(p).push_counter <= cold_rounds
    THEN Entry(p).push_counter + 1
    ELSE Entry(p).push_counter

\* C14: at a get_push_list call, an entry with recorded hits whose
\* push_counter after the round-advance step is <= hot_rounds gains exactly
\* one if the hits >= push_counter outnumber the hits < push_counter, and
\* nothing on a tie or a minority; above hot_rounds the hits add nothing.
C14_MajorityHitRule ==
    [][call'.op = "get_push_list" =>
          \A p \in Payloads :
              (Stored(p) /\ HasHits(p)) =>
                  LET a == AdvancedPush(p)
                      ge == Cardinality({i \in DOMAIN HitsOf(p) : HitsOf(p)[i] >= a})
                      lt == Cardinality({i \in DOMAIN HitsOf(p) : HitsOf(p)[i] < a})
                  IN  Entry(p)'.push_counter =
                         IF a <= hot_rounds /\ ge > lt THEN a + 1 ELSE a]_vars

\* one round after it was created, a rumor that was passed the count 1 is
\* still at push_counter 1 in the hot phase: the round's hits were split
C14_Witness ==
    /\ call.op = "get_push_list"
    /\ hot_rounds >= 1
    /\ \E p \in Payloads :
          /\ Stored(p)
          /\ Entry(p).push_counter = 1
          /\ Entry(p).age_counter = 1
          /\ maxRecv[p] = 1

Phase(p) ==
    IF Entry(p).push_counter <= hot_rounds THEN 0
    ELSE IF Entry(p).push_counter <= cold_rounds THEN 1
    ELSE 2

\* C16 (as stated): across every operation, add_peer included, the push
\* phase of a stored rumor never moves backward.
C16_PhaseNeverBackward ==
    [][\A p \in Payloads : Stored(p) => Phase(p)' >= Phase(p)]_vars

\* C16 (amended): the push phase of a stored rumor never moves backward
\* across a step that leaves hot_rounds and cold_rounds as they were, which
\* is every operation except an add_peer call that raises a threshold.
C16_PhaseForwardWhileThresholdsFixed ==
    [][(hot_rounds' = hot_rounds /\ cold_rounds' = cold_rounds) =>
          \A p \in Payloads : Stored(p) => Phase(p)' >= Phase(p)]_vars

\* a rumor never passed a count above cold_rounds has just been retired
\* from pushing by get_push_list
C16_Witness ==
    /\ call.op = "get_push_list"
    /\ total_peers > 0
    /\ \E p \in Payloads :
          /\ Stored(p)
          /\ maxRecv[p] <= cold_rounds
          /\ Entry(p).push_counter = cold_rounds + 1
          /\ Phase(p) = 2

\* C17: no operation lowers the push_counter or the age_counter of a stored
\* rumor, and one get_push_list call raises each of them by at most one: the
\* cold-tail increment and the majority-hit increment never both apply.
C17_AtMostOnePerCall ==
    [][\A p \in Payloads :
          Stored(p) =>
              /\ Stored(p)'
              /\ Entry(p)'.push_counter >= Entry(p).push_counter
              /\ Entry(p)'.age_counter >= Entry(p).age_counter
              /\ call'.op = "get_push_list" =>
                    /\ Entry(p)'.push_counter <= Entry(p).push_counter + 1
                    /\ Entry(p)'.age_counter <= Entry(p).age_counter + 1
                    /\ (Entry(p).push_counter > hot_rounds /\ HasHits(p)) =>
                          Entry(p)'.push_counter = AdvancedPush(p)]_vars

\* a rumor passed the count hot_rounds stands one above it after a
\* get_push_list call: the majority of its hits moved it into the cold
\* phase, and the cold-tail increment was not added in the same call
C17_Witness ==
    /\ call.op = "get_push_list"
    /\ hot_rounds >= 1
    /\ \E p \in Payloads :
          /\ Stored(p)
          /\ maxRecv[p] = hot_rounds
          /\ Entry(p).push_counter = hot_rounds + 1
          /\ Entry(p).age_counter = hot_rounds + 1

\* C18: no 8-bit counter wraps.  Whenever get_push_list changes a
\* push_counter or an age_counter, the old value is below 255 and the new
\* one is the old one plus one as an integer, also for rumors passed the
\* count 255; and the 2 * hot_rounds of add_peer is at most 255, so that
\* cold_rounds is max(2, 2 * hot_rounds) as an integer.
C18_NoCounterOverflow ==
    [][/\ call'.op = "get_push_list" =>
             \A p \in Payloads :
                 Stored(p) =>
                     /\ Entry(p)'.push_counter # Entry(p).push_counter =>
                           /\ Entry(p).push_counter < 255
                           /\ Entry(p)'.push_counter = Entry(p).push_counter + 1
                     /\ Entry(p)'.age_counter # Entry(p).age_counter =>
                           /\ Entry(p).age_counter < 255
                           /\ Entry(p)'.age_counter = Entry(p).age_counter + 1
                     /\ Entry(p).age_counter <= terminate_rounds =>
                           Entry(p).age_counter < 255
                     /\ (\/ /\ hot_rounds < Entry(p).push_counter
                            /\ Entry(p).push_counter <= cold_rounds
                         \/ /\ HasHits(p)
                            /\ AdvancedPush(p) <= hot_rounds) =>
                           Entry(p).push_counter < 255
       /\ call'.op = "add_peer" =>
             /\ 2 * hot_rounds' <= 255
             /\ cold_rounds' = Max(2, 2 * hot_rounds')]_vars

\* get_push_list has left a rumor passed the count 255 at 255 and 255, with
\* the thresholds add_peer computes for 1619 peers and more in force
C18_Witness ==
    /\ call.op = "get_push_list"
    /\ hot_rounds = 2
    /\ \E p \in Payloads :
          /\ Stored(p)
          /\ maxRecv[p] = 255
          /\ Entry(p).push_counter = 255
          /\ Entry(p).age_counter = 255

\* C19: every digest with an entry in the hit tally has a stored rumor, and
\* every count in the tally of a rumor is <= that rumor's push_counter; so a
\* hit that is not below the push_counter get_push_list compares it with
\* (the one left by the round advance) is equal to it.
C19_HitsBoundedByPushCounter ==
    /\ DOMAIN hits \subseteq DOMAIN messages
    /\ \A d \in DOMAIN hits :
          \A i \in DOMAIN hits[d] : hits[d][i] <= messages[d].push_counter
    /\ \A p \in Payloads :
          HasHits(p) =>
              /\ Stored(p)
              /\ Len(HitsOf(p)) >= 1
              /\ \A i \in DOMAIN HitsOf(p) :
                    ~ (HitsOf(p)[i] < AdvancedPush(p)) =>
                        HitsOf(p)[i] = AdvancedPush(p)

\* the tally of a hot rumor holds a count below its push_counter and a
\* count equal to it
C19_Witness ==
    \E p \in Payloads :
        /\ HasHits(p)
        /\ Entry(p).push_counter <= hot_rounds
        /\ \E i, j \in DOMAIN HitsOf(p) :
              /\ HitsOf(p)[i] < Entry(p).push_counter
              /\ HitsOf(p)[j] = Entry(p).push_counter

\* C20: while the thresholds stay as they were when p was first learned
\* through receive(c, p) with c > hot_rounds, p is stored and listed once by
\* messages() and no get_push_list call returns it; if also
\* c > terminate_rounds, no handle_pull call returns it either.
C20_LateRumorNeverOffered ==
    \A p \in Payloads :
        origin[p][1] >= 0 =>
            /\ origin[p][1] > hot_rounds
            /\ Stored(p)
            /\ Occurrences(MessagesList(messages), p) = 1
            /\ call.op = "messages" => Occurrences(call.ret, p) = 1
            /\ p \notin RetPayloads(PushList(messages, hot_rounds,
                                             terminate_rounds))
            /\ call.op = "get_push_list" => p \notin RetPayloads(call.ret)
            /\ origin[p][1] > terminate_rounds =>
                  /\ ~ Offered(p)
                  /\ call.op = "handle_pull" => p \notin RetPayloads(call.ret)

\* handle_pull has returned a rumor first learned with a count above
\* hot_rounds but not above terminate_rounds, and has left out one first
\* learned with a count above terminate_rounds
C20_Witness ==
    /\ call.op = "handle_pull"
    /\ \E p, q \in Payloads :
          /\ origin[p][1] > hot_rounds
          /\ origin[p][1] <= terminate_rounds
          /\ p \in RetPayloads(call.ret)
          /\ origin[q][1] > terminate_rounds
          /\ q \notin RetPayloads(call.ret)

====
